---- MODULE Spec2Model ----
(***************************************************************************)
(* A model of the Avro encoding library: schema derivation from Go types   *)
(* (gotype.go), the binary encoder (encode.go), the registry codec and the *)
(* schema-resolving decoder exercised by the tests, and CompatMode.        *)
(*                                                                         *)
(* The module holds several state machines, one per part of the library.   *)
(* Each has its own variables and its own specification; the variables of  *)
(* the other machines stay at their idle value.                            *)
(***************************************************************************)
EXTENDS Integers, Sequences, FiniteSets, TLC

VARIABLES
    \* ---- Codec.Unmarshal, one call (decode machine)
    msg,        \* the framed message handed to Unmarshal
    written,    \* the record the producer encoded into msg (history)
    dpc,        \* position of the call
    wid,        \* schema id split from the message
    body,       \* payload after the schema id
    wschema,    \* writer schema fetched for wid
    plan,       \* compiled decode plan
    target,     \* the TestRecord the caller passed (var x TestRecord)
    consumed,   \* number of payload bytes the plan run has read
    derr,       \* error returned by Unmarshal (NoError = nil)
    \* ---- CompatMode.String
    cm,         \* the CompatMode value
    cs,         \* the string rendered for it
    cpc,        \* position of the call
    \* ---- Codec: concurrent Unmarshal calls sharing the plan cache
    plans,      \* plan cache: schema id -> compiled plan (0 = none)
    inflight,   \* schema id -> the fetch/compile in progress (0 = none)
    flightRes,  \* outcome of each finished fetch/compile
    nflights,   \* fetch/compiles started so far
    kpc,        \* per caller: position of its call
    kid,        \* per caller: schema id of its message
    kflight,    \* per caller: the fetch/compile it leads or waits for
    kres,       \* per caller: what its call used (plan or failure)
    fetches,    \* per schema id: SchemaForID calls made (history)
    compiles,   \* per schema id: plan compiles run (history)
    \* ---- the Go program's declarations that derivation reflects on
    tfields,    \* the fields declared by struct type T
    ekind,      \* the kind of the integer type E
    estr,       \* E's String method: index -> outcome, for -1..MaxIdx
    etail,      \* E's String beyond MaxIdx: "marker" or "fresh"
    \* ---- enumSymbols(E), one call
    epc,        \* position of the call
    eres,       \* the returned symbols
    \* ---- avroTypeOf under concurrent callers
    goTypeToAvroType,  \* the sync.Map: type id -> *Type
    nextType,   \* *Type values allocated so far
    apc,        \* per goroutine: position in avroTypeOf
    at,         \* per goroutine: the argument t
    awType,     \* per goroutine: whether wType is non-nil
    arType,     \* per goroutine: rType or err of schemaForGoTypeUncached
    aret,       \* per goroutine: what avroTypeOf returned
    aderived,   \* per type: runs of schemaForGoTypeUncached (history)
    aprior,     \* per goroutine: the derivation error that calls for its
                \* type had already returned when it called (history)
    \* ---- one derivation, gts.schemaForGoType(t) with fresh gts.defs
    gpc,        \* position of the call
    gt,         \* the type derived
    gres,       \* its outcome: out, schema, err and the final gts.defs
    \* ---- one Marshal(x, nil) call, and Unmarshal of what it returned
    mx,         \* the argument x: a Go value with its dynamic type, or nil
    mpc,        \* position of the call
    mtype,      \* at: the derived schema and its named definitions
    menc,       \* enc: the encoder built by typeEncoder
    mret,       \* what Marshal returned: bytes and error
    mback       \* the value Unmarshal stored in a target of x's type

decodeVars == <<msg, written, dpc, wid, body, wschema, plan, target, consumed, derr>>
compatVars == <<cm, cs, cpc>>
codecVars == <<plans, inflight, flightRes, nflights, kpc, kid, kflight, kres,
               fetches, compiles>>

declVars == <<tfields, ekind, estr, etail>>
enumVars == <<epc, eres>>

cacheVars == <<goTypeToAvroType, nextType, apc, at, awType, arType, aret, aderived,
               aprior>>

deriveVars == <<gpc, gt, gres>>

marshalVars == <<mx, mpc, mtype, menc, mret, mback>>

vars == <<decodeVars, compatVars, codecVars, declVars, enumVars, cacheVars, deriveVars,
          marshalVars>>

\* The variables of the other machines, which a machine's actions leave alone.
notDecode == <<compatVars, codecVars, declVars, enumVars, cacheVars, deriveVars, marshalVars>>
notCompat == <<decodeVars, codecVars, declVars, enumVars, cacheVars, deriveVars, marshalVars>>
notCodec == <<decodeVars, compatVars, declVars, enumVars, cacheVars, deriveVars, marshalVars>>
notEnum == <<decodeVars, compatVars, codecVars, cacheVars, deriveVars, marshalVars>>
notCache == <<decodeVars, compatVars, codecVars, declVars, enumVars, deriveVars, marshalVars>>
notDerive == <<decodeVars, compatVars, codecVars, enumVars, cacheVars, marshalVars>>
notMarshal == <<decodeVars, compatVars, codecVars, enumVars, cacheVars, deriveVars>>

(***************************************************************************)
(* Integers on the wire: encodeState.writeLong is binary.PutVarint, that   *)
(* is the zig-zag mapping followed by a base-128 little-endian varint.     *)
(***************************************************************************)

\* Zig-zag is (x << 1) ^ (x >> 63): the sign is folded into the low bit.
ZigZag(x) == IF x >= 0 THEN 2 * x ELSE (-2 * x) - 1

RECURSIVE Uvarint(_)
Uvarint(u) == IF u < 128 THEN <<u>> ELSE <<(u % 128) + 128>> \o Uvarint(u \div 128)

writeLong(x) == Uvarint(ZigZag(x))


\* stringEncoder: the byte count as a long, then the bytes.
stringEncoder(s) == writeLong(Len(s)) \o s

(***************************************************************************)
(* The registry of the codec test: mapSchemaGetter, a single-byte schema   *)
(* id in front of the payload.  A record schema is its ordered field list. *)
(* Ids 1, 2, 3 and 13 are the test's; 5 and 6 are further writer schemas   *)
(* (the reader's own order, and one with a field the reader does not       *)
(* have); every other id is unknown to the registry.                       *)
(***************************************************************************)
IntF(n) == [name |-> n, type |-> "int"]
StrF(n) == [name |-> n, type |-> "string"]

Registry ==
    (1 :> <<IntF("B"), IntF("A")>>) @@
    (2 :> <<IntF("B")>>) @@
    (3 :> <<IntF("A")>>) @@
    (13 :> <<StrF("A")>>) @@
    (5 :> <<IntF("A"), IntF("B")>>) @@
    (6 :> <<IntF("B"), StrF("C"), IntF("A")>>)

\* mapSchemaGetter.SchemaID: the first byte is the id, the rest the payload.
SchemaID(m) == IF Len(m) < 1 THEN [id |-> 0, body |-> <<>>]
               ELSE [id |-> m[1], body |-> Tail(m)]

SchemaForIDSwapped(id) ==
    IF id \in DOMAIN Registry
    THEN [ok |-> TRUE,
          schema |-> [i \in 1..Len(Registry[id]) |->
                         Registry[id][Len(Registry[id]) + 1 - i]]]
    ELSE [ok |-> FALSE, schema |-> <<>>]

\* mapSchemaGetter.SchemaForID: the schema text for id, or "schema not found".
SchemaForID(id) ==
    IF id \in DOMAIN Registry
    THEN [ok |-> TRUE, schema |-> Registry[id]]
    ELSE [ok |-> FALSE, schema |-> <<>>]

\* mapSchemaGetter.AppendWithSchemaID (ids outside 0..256 panic; none is used).
AppendWithSchemaID(m, id) == <<id>> \o m

(***************************************************************************)
(* The reader: the generated TestRecord{A int; B int}, whose AvroRecord    *)
(* schema gives A the default 42 and B no default.                         *)
(***************************************************************************)
ReaderNoDefaults ==
    <<[name |-> "A", type |-> "int", hasDefault |-> FALSE, default |-> 0],
      [name |-> "B", type |-> "int", hasDefault |-> FALSE, default |-> 0]>>

ReaderAllDefaults ==
    <<[name |-> "A", type |-> "int", hasDefault |-> TRUE, default |-> 42],
      [name |-> "B", type |-> "int", hasDefault |-> TRUE, default |-> 0]>>

ReaderSchema ==
    <<[name |-> "A", type |-> "int", hasDefault |-> TRUE, default |-> 42],
      [name |-> "B", type |-> "int", hasDefault |-> FALSE, default |-> 0]>>

\* var x TestRecord
ZeroTestRecord == [A |-> 0, B |-> 0]


(***************************************************************************)
(* Schema resolution and the decode plan (Resolution Engine).              *)
(***************************************************************************)
RECURSIVE IndexOf(_, _, _)
IndexOf(fields, name, i) ==
    IF i > Len(fields) THEN 0
    ELSE IF fields[i].name = name THEN i
    ELSE IndexOf(fields, name, i + 1)

HasField(fields, name) == IndexOf(fields, name, 1) # 0

\* Allowed widenings: Int -> Long -> Float -> Double, String <-> Bytes.
Widenings ==
    { <<"int", "long">>, <<"int", "float">>, <<"int", "double">>,
      <<"long", "float">>, <<"long", "double">>, <<"float", "double">>,
      <<"string", "bytes">>, <<"bytes", "string">> }

Promotable(w, r) == w = r \/ <<w, r>> \in Widenings

NoError == [kind |-> "", field |-> ""]

\* compile(writerSchema, readerSchema): one step per writer field, in writer
\* order (store into the reader field of the same name, or read and discard),
\* then one default step per reader field the writer lacks.
Compile(w, r) ==
    LET matched(i) == IndexOf(r, w[i].name, 1)
        badType == { i \in 1..Len(w) :
                       matched(i) # 0 /\ ~Promotable(w[i].type, r[matched(i)].type) }
        absent == SelectSeq(r, LAMBDA f : ~HasField(w, f.name))
        noDefault == SelectSeq(absent, LAMBDA f : ~f.hasDefault)
        wsteps == [i \in 1..Len(w) |->
                     [op |-> IF matched(i) # 0 THEN "store" ELSE "skip",
                      name |-> w[i].name, wtype |-> w[i].type, value |-> 0]]
        dsteps == [i \in 1..Len(absent) |->
                     [op |-> "default", name |-> absent[i].name,
                      wtype |-> absent[i].type, value |-> absent[i].default]]
    IN  IF badType # {}
        THEN [ok |-> FALSE, steps |-> <<>>,
              err |-> [kind |-> "type mismatch",
                       field |-> w[CHOOSE i \in badType : \A j \in badType : i <= j].name]]
        ELSE IF noDefault # <<>>
        THEN [ok |-> FALSE, steps |-> <<>>,
              err |-> [kind |-> "no default", field |-> noDefault[1].name]]
        ELSE [ok |-> TRUE, steps |-> wsteps \o dsteps, err |-> NoError]

\* Reads one varint from body after position pos; acc and mul carry the
\* groups read so far.
RECURSIVE ReadUvarint(_, _, _, _)
ReadUvarint(b, pos, acc, mul) ==
    IF pos + 1 > Len(b) THEN [ok |-> FALSE, val |-> 0, pos |-> pos]
    ELSE IF b[pos + 1] < 128
         THEN [ok |-> TRUE, val |-> acc + b[pos + 1] * mul, pos |-> pos + 1]
         ELSE ReadUvarint(b, pos + 1, acc + (b[pos + 1] - 128) * mul, mul * 128)

UnZigZag(u) == IF u % 2 = 0 THEN u \div 2 ELSE -((u + 1) \div 2)

ReadLong(b, pos) ==
    LET r == ReadUvarint(b, pos, 0, 1)
    IN  [ok |-> r.ok, val |-> UnZigZag(r.val), pos |-> r.pos]

\* Reads one value of the writer's type; strings carry a length prefix.
ReadValue(wtype, b, pos) ==
    IF wtype \in {"string", "bytes"}
    THEN LET n == ReadLong(b, pos)
         IN  IF ~n.ok \/ n.val < 0 \/ n.pos + n.val > Len(b)
             THEN [ok |-> FALSE, val |-> <<>>, pos |-> pos]
             ELSE [ok |-> TRUE, val |-> SubSeq(b, n.pos + 1, n.pos + n.val),
                   pos |-> n.pos + n.val]
    ELSE ReadLong(b, pos)

\* Runs the plan over the payload: writer order on the wire, each stored
\* value landing in the reader field the step names.
RECURSIVE RunPlan(_, _, _, _, _)
RunPlan(steps, i, b, pos, tgt) ==
    IF i > Len(steps) THEN [err |-> NoError, target |-> tgt, pos |-> pos]
    ELSE LET s == steps[i] IN
         IF s.op = "default"
         THEN RunPlan(steps, i + 1, b, pos, [tgt EXCEPT ![s.name] = s.value])
         ELSE LET r == ReadValue(s.wtype, b, pos) IN
              IF ~r.ok
              THEN [err |-> [kind |-> "short read", field |-> s.name],
                    target |-> tgt, pos |-> pos]
              ELSE RunPlan(steps, i + 1, b, r.pos,
                           IF s.op = "store" THEN [tgt EXCEPT ![s.name] = r.val]
                           ELSE tgt)

(***************************************************************************)
(* The producer side of the tests: a record written with writer schema id, *)
(* fields in the writer's order, framed with the id.                       *)
(***************************************************************************)
Vals == {-3, 20, 40, 64}
StrVals == {<<>>, <<97, 98>>}

RECURSIVE EncodeFields(_, _, _)
EncodeFields(fields, rec, i) ==
    IF i > Len(fields) THEN <<>>
    ELSE (IF fields[i].type = "string" THEN stringEncoder(rec[fields[i].name])
          ELSE writeLong(rec[fields[i].name]))
         \o EncodeFields(fields, rec, i + 1)

Frame(id, rec) == AppendWithSchemaID(EncodeFields(Registry[id], rec, 1), id)

Inputs ==
    { [id |-> i, rec |-> [A |-> a, B |-> b]] : i \in {1, 5}, a \in Vals, b \in Vals }
    \cup { [id |-> 2, rec |-> [B |-> b]] : b \in Vals }
    \cup { [id |-> 3, rec |-> [A |-> a]] : a \in Vals }
    \cup { [id |-> 13, rec |-> [A |-> s]] : s \in StrVals }
    \cup { [id |-> 6, rec |-> [A |-> a, B |-> b, C |-> s]] :
              a \in Vals, b \in Vals, s \in StrVals }

\* Messages no producer of the registry wrote: empty, unknown id, cut short.
Junk == { <<>>, <<7, 80>>, <<1, 40>> }

DecodeIdle ==
    /\ msg = <<>> /\ written = <<>> /\ dpc = "idle" /\ wid = 0 /\ body = <<>>
    /\ wschema = <<>> /\ plan = <<>> /\ target = ZeroTestRecord
    /\ consumed = 0 /\ derr = NoError

DecodeInit ==
    /\ \/ \E in \in Inputs : msg = Frame(in.id, in.rec) /\ written = in.rec
       \/ \E j \in Junk : msg = j /\ written = <<>>
    /\ dpc = "start" /\ wid = 0 /\ body = <<>>
    /\ wschema = <<>> /\ plan = <<>> /\ target = ZeroTestRecord
    /\ consumed = 0 /\ derr = NoError

\* Codec.Unmarshal: split the schema id off the message.
DSplit ==
    /\ dpc = "start"
    /\ wid' = SchemaID(msg).id
    /\ body' = SchemaID(msg).body
    /\ dpc' = "fetch"
    /\ UNCHANGED <<msg, written, wschema, plan, target, consumed, derr, notDecode>>

\* Fetch the writer schema for the id; "schema not found" ends the call.
DFetch ==
    /\ dpc = "fetch"
    /\ LET r == SchemaForID(wid) IN
       IF r.ok
       THEN wschema' = r.schema /\ dpc' = "compile" /\ derr' = derr
       ELSE wschema' = wschema /\ dpc' = "done"
            /\ derr' = [kind |-> "schema not found", field |-> ""]
    /\ UNCHANGED <<msg, written, wid, body, plan, target, consumed, notDecode>>

\* Compile the plan for (writer schema, TestRecord's schema).
DCompile ==
    /\ dpc = "compile"
    /\ LET c == Compile(wschema, ReaderSchema) IN
       IF c.ok
       THEN plan' = c.steps /\ dpc' = "run" /\ derr' = derr
       ELSE plan' = plan /\ dpc' = "done" /\ derr' = c.err
    /\ UNCHANGED <<msg, written, wid, body, wschema, target, consumed, notDecode>>

\* Run the plan over the payload into the caller's record.
DRun ==
    /\ dpc = "run"
    /\ LET r == RunPlan(plan, 1, body, 0, target) IN
       /\ target' = r.target
       /\ consumed' = r.pos
       /\ derr' = r.err
    /\ dpc' = "done"
    /\ UNCHANGED <<msg, written, wid, body, wschema, plan, notDecode>>

DecodeNext == DSplit \/ DFetch \/ DCompile \/ DRun


(***************************************************************************)
(* Properties of decoding (checked under SpecDecode).                      *)
(***************************************************************************)
\* The message was written by a producer of the registry with schema msg[1].
Produced == msg \notin Junk
WriterOf == Registry[msg[1]]
NamesOf(fields) == { fields[i].name : i \in 1..Len(fields) }
ReaderNames == NamesOf(ReaderSchema)
\* Every field the writer shares with the reader resolves by type.
SharedCompatible ==
    \A i \in 1..Len(WriterOf) :
        HasField(ReaderSchema, WriterOf[i].name) =>
            Promotable(WriterOf[i].type,
                       ReaderSchema[IndexOf(ReaderSchema, WriterOf[i].name, 1)].type)

\* C1: when the writer's fields are a permutation of the reader's, decode
\* reads the values in writer field order and stores each one in the reader
\* field of the same name.
C1_ByName ==
    (dpc = "done" /\ Produced /\ NamesOf(WriterOf) = ReaderNames
        /\ Len(WriterOf) = Len(ReaderSchema) /\ SharedCompatible)
    => /\ derr = NoError
       /\ \A n \in ReaderNames : target[n] = written[n]
       /\ [i \in 1..Len(plan) |-> plan[i].name]
             = [i \in 1..Len(WriterOf) |-> WriterOf[i].name]
       /\ consumed = Len(body)

\* Writer order [B, A], wire 40 80, decodes to {A: 40, B: 20}.
C1_Witness ==
    dpc = "done" /\ msg = <<1, 40, 80>> /\ derr = NoError
    /\ target = [A |-> 40, B |-> 20]

\* C2: the reader's field A, which has the default 42, is absent from the
\* writer and nothing else differs: decode succeeds, A takes 42 without
\* consuming input, and B takes the written value.
C2_DefaultFilled ==
    (dpc = "done" /\ Produced /\ NamesOf(WriterOf) = {"B"}
        /\ \A i \in 1..Len(WriterOf) : WriterOf[i].type = "int")
    => /\ derr = NoError
       /\ target = [A |-> 42, B |-> written["B"]]
       /\ consumed = Len(writeLong(written["B"]))
       /\ consumed = Len(body)
       /\ \E i \in 1..Len(plan) : plan[i].op = "default" /\ plan[i].name = "A"

\* Writer with only B, wire 80, decodes to {A: 42, B: 40}.
C2_Witness ==
    dpc = "done" /\ msg = <<2, 80>> /\ derr = NoError
    /\ target = [A |-> 42, B |-> 40] /\ consumed = 1

Backward == 1
Forward == 2
Transitive == 4
Full == Backward + Forward
BackwardTransitive == Backward + Transitive
ForwardTransitive == Forward + Transitive
FullTransitive == Full + Transitive

\* The width of the mode values explored: 0 .. 2^ModeBits - 1.
ModeBits == 11
Modes == 0..(2^ModeBits - 1)

\* The table of TestCompatString.
compatStringTests ==
    { [m |-> 0, s |-> "NONE"],
      [m |-> Backward, s |-> "BACKWARD"],
      [m |-> Forward, s |-> "FORWARD"],
      [m |-> Full, s |-> "FULL"],
      [m |-> BackwardTransitive, s |-> "BACKWARD_TRANSITIVE"],
      [m |-> ForwardTransitive, s |-> "FORWARD_TRANSITIVE"],
      [m |-> FullTransitive, s |-> "FULL_TRANSITIVE"],
      [m |-> 2^10, s |-> "UNKNOWN"] }

\* A rendering that composes the label from the bits, so that the
\* Transitive marker alone renders as NONE_TRANSITIVE.
StringByBits(m) ==
    LET base == CASE m % 4 = 0 -> "NONE" [] m % 4 = Backward -> "BACKWARD"
                  [] m % 4 = Forward -> "FORWARD" [] OTHER -> "FULL"
    IN  IF m >= 8 THEN "UNKNOWN"
        ELSE IF m < 4 THEN base
        ELSE CASE base = "NONE" -> "NONE_TRANSITIVE"
               [] base = "BACKWARD" -> "BACKWARD_TRANSITIVE"
               [] base = "FORWARD" -> "FORWARD_TRANSITIVE"
               [] OTHER -> "FULL_TRANSITIVE"

\* CompatMode.String
String(m) ==
    CASE m = 0 -> "NONE"
      [] m = Backward -> "BACKWARD"
      [] m = Forward -> "FORWARD"
      [] m = Full -> "FULL"
      [] m = BackwardTransitive -> "BACKWARD_TRANSITIVE"
      [] m = ForwardTransitive -> "FORWARD_TRANSITIVE"
      [] m = FullTransitive -> "FULL_TRANSITIVE"
      [] OTHER -> "UNKNOWN"

CompatIdle == cm = 0 /\ cs = "" /\ cpc = "idle"

CompatInit == cm \in Modes /\ cs = "" /\ cpc = "start"

\* m.String()
CRender ==
    /\ cpc = "start"
    /\ cs' = String(cm)
    /\ cpc' = "done"
    /\ UNCHANGED <<cm, notCompat>>

CompatNext == CRender

\* C8: String renders exactly the seven defined bit patterns with their
\* labels and every other bit pattern as UNKNOWN.
C8_CompatString ==
    cpc = "done" =>
        /\ \A t \in compatStringTests : cm = t.m => cs = t.s
        /\ (cm \notin {0, 1, 2, 3, 5, 6, 7}) <=> cs = "UNKNOWN"
        /\ \A t \in compatStringTests : (cs = t.s /\ cs # "UNKNOWN") => cm = t.m

\* The undefined pattern of the test table, 1 << 10.
C8_Witness == cpc = "done" /\ cm = 2^10 /\ cs = "UNKNOWN"

(***************************************************************************)
(* The codec's plan cache under concurrent Unmarshal calls.  Plans are     *)
(* cached by writer schema id; a miss starts one fetch and compile that    *)
(* the concurrent callers for that id wait for; failures are not cached.   *)
(***************************************************************************)
NCallers == 3
Callers == 1..NCallers
\* A known schema, one the reader cannot resolve, and an unknown id.
CodecIds == {1, 3, 7}
MaxFlights == NCallers

NoResult == [ok |-> FALSE, plan |-> 0, err |-> NoError]

\* What a caller does on entry, under the cache's lock.
LookupNoJoin(id) ==
    IF plans[id] # 0 THEN "hit" ELSE "lead"

Lookup(id) ==
    IF plans[id] # 0 THEN "hit"
    ELSE IF inflight[id] # 0 THEN "join"
    ELSE "lead"

CodecIdle ==
    /\ plans = <<>> /\ inflight = <<>> /\ flightRes = <<>> /\ nflights = 0
    /\ kpc = <<>> /\ kid = <<>> /\ kflight = <<>> /\ kres = <<>>
    /\ fetches = <<>> /\ compiles = <<>>

CodecInit ==
    /\ plans = [i \in CodecIds |-> 0]
    /\ inflight = [i \in CodecIds |-> 0]
    /\ flightRes = [f \in 1..MaxFlights |-> NoResult]
    /\ nflights = 0
    /\ kpc = [c \in Callers |-> "idle"]
    /\ kid = [c \in Callers |-> 0]
    /\ kflight = [c \in Callers |-> 0]
    /\ kres = [c \in Callers |-> NoResult]
    /\ fetches = [i \in CodecIds |-> 0]
    /\ compiles = [i \in CodecIds |-> 0]

\* Unmarshal entry: split the id, then hit the cache, join the fetch/compile
\* in progress for the id, or start one.
KCall(c, id) ==
    /\ kpc[c] = "idle"
    /\ kid' = [kid EXCEPT ![c] = id]
    /\ LET how == Lookup(id) IN
       CASE how = "hit" ->
              /\ kres' = [kres EXCEPT ![c] = [ok |-> TRUE, plan |-> plans[id], err |-> NoError]]
              /\ kpc' = [kpc EXCEPT ![c] = "done"]
              /\ kflight' = [kflight EXCEPT ![c] = 0]
              /\ UNCHANGED <<inflight, nflights>>
         [] how = "join" ->
              /\ kflight' = [kflight EXCEPT ![c] = inflight[id]]
              /\ kpc' = [kpc EXCEPT ![c] = "wait"]
              /\ kres' = [kres EXCEPT ![c] = NoResult]
              /\ UNCHANGED <<inflight, nflights>>
         [] OTHER ->
              /\ nflights' = nflights + 1
              /\ inflight' = [inflight EXCEPT ![id] = nflights + 1]
              /\ kflight' = [kflight EXCEPT ![c] = nflights + 1]
              /\ kpc' = [kpc EXCEPT ![c] = "fetch"]
              /\ kres' = [kres EXCEPT ![c] = NoResult]
    /\ UNCHANGED <<plans, flightRes, fetches, compiles, notCodec>>

\* The caller that started the fetch/compile asks the registry for the schema.
KFetch(c) ==
    /\ kpc[c] = "fetch"
    /\ fetches' = [fetches EXCEPT ![kid[c]] = @ + 1]
    /\ LET r == SchemaForID(kid[c]) IN
       IF r.ok
       THEN /\ kpc' = [kpc EXCEPT ![c] = "compile"]
            /\ UNCHANGED <<inflight, flightRes, kres>>
       ELSE LET res == [ok |-> FALSE, plan |-> 0,
                        err |-> [kind |-> "schema not found", field |-> ""]] IN
            /\ flightRes' = [flightRes EXCEPT ![kflight[c]] = res]
            /\ inflight' = [inflight EXCEPT ![kid[c]] = 0]
            /\ kres' = [kres EXCEPT ![c] = res]
            /\ kpc' = [kpc EXCEPT ![c] = "done"]
    /\ UNCHANGED <<plans, nflights, kid, kflight, compiles, notCodec>>

\* It compiles the plan against the target's schema and publishes the result:
\* a plan goes into the cache, a failure only to the callers waiting.
KCompile(c) ==
    /\ kpc[c] = "compile"
    /\ compiles' = [compiles EXCEPT ![kid[c]] = @ + 1]
    /\ LET p == Compile(SchemaForID(kid[c]).schema, ReaderSchema)
           res == [ok |-> p.ok, plan |-> IF p.ok THEN kflight[c] ELSE 0, err |-> p.err]
       IN  /\ flightRes' = [flightRes EXCEPT ![kflight[c]] = res]
           /\ plans' = IF p.ok THEN [plans EXCEPT ![kid[c]] = kflight[c]] ELSE plans
           /\ kres' = [kres EXCEPT ![c] = res]
    /\ inflight' = [inflight EXCEPT ![kid[c]] = 0]
    /\ kpc' = [kpc EXCEPT ![c] = "done"]
    /\ UNCHANGED <<nflights, kid, kflight, fetches, notCodec>>

\* A waiting caller picks up the result of the fetch/compile it joined.
KWake(c) ==
    /\ kpc[c] = "wait"
    /\ inflight[kid[c]] # kflight[c]
    /\ kres' = [kres EXCEPT ![c] = flightRes[kflight[c]]]
    /\ kpc' = [kpc EXCEPT ![c] = "done"]
    /\ UNCHANGED <<plans, inflight, flightRes, nflights, kid, kflight,
                   fetches, compiles, notCodec>>

CodecNext ==
    \E c \in Callers :
        \/ \E id \in CodecIds : KCall(c, id)
        \/ KFetch(c)
        \/ KCompile(c)
        \/ KWake(c)

\* The fetch/compiles started for a schema id, as the callers recorded them.
FlightsFor(id) == { kflight[c] : c \in { d \in Callers : kid[d] = id /\ kflight[d] # 0 } }

Finished(f) == flightRes[f] # NoResult

\* C5: concurrent first-time decodes for one unseen schema id share one
\* fetch and one compile, and all of them use the same plan or the same
\* failure.
C5_SingleFlight ==
    /\ \A c1, c2 \in Callers :
          (kid[c1] = kid[c2] /\ kpc[c1] = "wait" /\ ~Finished(kflight[c1])
              /\ kpc[c2] \in {"fetch", "compile"})
          => kflight[c1] = kflight[c2]
    /\ \A c1, c2 \in Callers :
          (kpc[c1] \in {"fetch", "compile"} /\ kpc[c2] \in {"fetch", "compile"}
              /\ kid[c1] = kid[c2]) => c1 = c2
    /\ \A c1, c2 \in Callers :
          (kpc[c1] = "done" /\ kpc[c2] = "done" /\ kflight[c1] # 0
              /\ kflight[c1] = kflight[c2]) => kres[c1] = kres[c2]
    /\ \A id \in CodecIds :
          /\ fetches[id] <= Cardinality(FlightsFor(id))
          /\ compiles[id] <= fetches[id]
          /\ plans[id] # 0 =>
                /\ fetches[id] = 1 /\ compiles[id] = 1
                /\ \A c \in Callers :
                      (kpc[c] = "done" /\ kid[c] = id) => kres[c].plan = plans[id]
          /\ (\A c \in Callers : kid[c] = id /\ kflight[c] = 1 /\ kpc[c] = "done")
                => /\ fetches[id] = 1
                   /\ \A c \in Callers : kres[c] = kres[1]

\* All callers decoded schema 1 through the one fetch/compile the first
\* of them started.
C5_Witness ==
    /\ \A c \in Callers :
          kpc[c] = "done" /\ kid[c] = 1 /\ kflight[c] = 1 /\ kres[c].plan = 1
    /\ fetches[1] = 1 /\ compiles[1] = 1

(***************************************************************************)
(* Go strings that the code takes apart are sequences of characters.       *)
(***************************************************************************)
Contains(str, ch) == \E i \in 1..Len(str) : str[i] = ch

\* F applied to the value of x, with x evaluated once (a local variable
\* holding a call's result).
Bind(x, F(_)) == CHOOSE y \in { F(r) : r \in {x} } : TRUE

\* strings.Split(str, sep) for a one-character separator: always at least
\* one part ("" splits into one empty part).
RECURSIVE SplitFrom(_, _, _, _)
SplitFrom(str, sep, i, cur) ==
    IF i > Len(str) THEN <<cur>>
    ELSE IF str[i] = sep THEN <<cur>> \o SplitFrom(str, sep, i + 1, <<>>)
    ELSE SplitFrom(str, sep, i + 1, Append(cur, str[i]))

Split(str, sep) == SplitFrom(str, sep, 1, <<>>)

Digits == <<"0", "1", "2", "3", "4", "5", "6", "7", "8", "9">>
Itoa3(i) == <<Digits[(i \div 100) + 1], Digits[((i \div 10) % 10) + 1], Digits[(i % 10) + 1]>>

(***************************************************************************)
(* The declarations of the Go program: what reflect reports for a type.    *)
(* Types are named by an id; T (a struct) and E (an integer type with a    *)
(* String method) are declared by the variables, the others are fixed.     *)
(***************************************************************************)
SignedKinds == {"int", "int8", "int16", "int32", "int64"}
UnsignedKinds == {"uint", "uint8", "uint16", "uint32", "uint64"}

\* The largest index at which E's String method is given point by point.
MaxIdx == 2

Sym(str) == [panic |-> FALSE, s |-> str]
OutOfRange == Sym(<<"E", "(", ")">>)
\* What a String method may do at one index: an in-range symbol, the empty
\* string, the stringer tool's "E(x)" for an out-of-range x, or a panic.
SymOutcomes ==
    { Sym(<<"R">>), Sym(<<"G">>), Sym(<<"B">>), Sym(<<>>), OutOfRange,
      [panic |-> TRUE, s |-> <<>>] }

\* E's String method at value i.
StringOfE(i) ==
    IF i <= MaxIdx THEN estr[i]
    ELSE IF etail = "fresh" THEN Sym(<<"S">> \o Itoa3(i))
    ELSE OutOfRange

(***************************************************************************)
(* enumSymbols                                                             *)
(***************************************************************************)
maxEnum == 250

\* v := reflect.New(t) is a Value of kind Ptr holding *E; it is not
\* addressable.  reflect.Value.SetInt and SetUint panic unless the Value is
\* assignable and of an integer kind.
NewValue == [kind |-> "ptr", addressable |-> FALSE]

SetIntPanics(v) == ~v.addressable \/ v.kind \notin SignedKinds
SetUintPanics(v) == ~v.addressable \/ v.kind \notin UnsignedKinds
\* reflect.Value.Int panics on a Value that is not of a signed integer kind.
IntPanics(v) == v.kind \notin SignedKinds

\* symOf(i): set the value, call String, read the value back; a panic in any
\* of them is recovered and reported as ok = false, with the named results
\* still at their zero values.
symOf(kind, i) ==
    LET isUnsigned == kind \in UnsignedKinds
        setPanics == IF isUnsigned THEN SetUintPanics(NewValue) ELSE SetIntPanics(NewValue)
        str == StringOfE(i)
        getPanics == IntPanics(NewValue)
    IN  IF setPanics \/ str.panic \/ getPanics
        THEN [sym |-> <<>>, ok |-> FALSE]
        ELSE [sym |-> str.s, ok |-> TRUE]

\* The loop of enumSymbols from index i on.
RECURSIVE enumLoop(_, _, _, _)
enumLoop(kind, i, prev, syms) ==
    IF i >= maxEnum THEN <<>>
    ELSE Bind(symOf(kind, i), LAMBDA r :
         IF ~r.ok \/ Contains(r.sym, "(") \/ r.sym = <<>> THEN syms
         ELSE IF r.sym = prev THEN SubSeq(syms, 1, Len(syms) - 1)
         ELSE enumLoop(kind, i + 1, r.sym, Append(syms, r.sym)))

\* enumSymbols for a type of the given kind; hasString says whether the
\* type has a String method.
enumSymbols(kind, hasString) ==
    IF kind \notin SignedKinds \cup UnsignedKinds THEN <<>>
    ELSE IF ~hasString THEN <<>>
    ELSE LET r == symOf(kind, -1) IN
         IF r.ok /\ ~Contains(r.sym, "(") THEN <<>>
         ELSE enumLoop(kind, 0, <<>>, <<>>)

(***************************************************************************)
(* The type table.  A descriptor gives what reflect reports: Kind, Name,   *)
(* Elem, Key, Len, the struct fields, whether the type is generated (it    *)
(* has an AvroRecord method) and whether it has a String method.           *)
(***************************************************************************)
Ty(kind, name) ==
    [kind |-> kind, name |-> name, elem |-> "", key |-> "", len |-> 0,
     fields |-> <<>>, generated |-> FALSE, hasString |-> FALSE]

\* A struct field: Name, PkgPath ("" when exported), the json tag,
\* Anonymous, and the id of its type.
Field(name, pkg, tag, anon, type) ==
    [name |-> name, pkgPath |-> pkg, tag |-> tag, anonymous |-> anon, type |-> type]
Exported(name, type) == Field(name, "", <<>>, FALSE, type)

BasicKinds ==
    {"int", "int8", "int16", "int32", "int64", "uint", "uint8", "uint16", "uint32",
     "uint64", "float32", "float64", "string", "bool"}

FixedTypes ==
    [k \in BasicKinds |-> Ty(k, k)] @@
    ("[]int" :> [Ty("slice", "") EXCEPT !.elem = "int"]) @@
    ("[]string" :> [Ty("slice", "") EXCEPT !.elem = "string"]) @@
    ("[]Inner" :> [Ty("slice", "") EXCEPT !.elem = "Inner"]) @@
    ("map[string]int" :> [Ty("map", "") EXCEPT !.key = "string", !.elem = "int"]) @@
    ("map[int]int" :> [Ty("map", "") EXCEPT !.key = "int", !.elem = "int"]) @@
    ("*int" :> [Ty("ptr", "") EXCEPT !.elem = "int"]) @@
    ("**int" :> [Ty("ptr", "") EXCEPT !.elem = "*int"]) @@
    ("*Inner" :> [Ty("ptr", "") EXCEPT !.elem = "Inner"]) @@
    ("*Node" :> [Ty("ptr", "") EXCEPT !.elem = "Node"]) @@
    ("*TestRecord" :> [Ty("ptr", "") EXCEPT !.elem = "TestRecord"]) @@
    ("[5]byte" :> [Ty("array", "") EXCEPT !.elem = "uint8", !.len = 5]) @@
    ("five" :> [Ty("array", "five") EXCEPT !.elem = "uint8", !.len = 5]) @@
    ("[3]int" :> [Ty("array", "") EXCEPT !.elem = "int", !.len = 3]) @@
    ("interface{}" :> Ty("interface", "")) @@
    ("TestRecord" :> [Ty("struct", "TestRecord") EXCEPT
        !.fields = <<Exported(<<"A">>, "int"), Exported(<<"B">>, "int")>>,
        !.generated = TRUE]) @@
    ("R" :> [Ty("struct", "R") EXCEPT
        !.fields = <<Exported(<<"F">>, "five")>>, !.generated = TRUE]) @@
    ("PrimitiveUnionTestRecord" :> [Ty("struct", "PrimitiveUnionTestRecord") EXCEPT
        !.fields = <<Exported(<<"UnionField">>, "interface{}")>>, !.generated = TRUE]) @@
    ("Inner" :> [Ty("struct", "Inner") EXCEPT !.fields = <<Exported(<<"X">>, "int")>>]) @@
    ("U" :> [Ty("struct", "U") EXCEPT !.fields = <<Exported(<<"N">>, "uint32")>>]) @@
    ("other.five" :> [Ty("array", "five") EXCEPT !.elem = "uint8", !.len = 5]) @@
    ("S" :> [Ty("struct", "S") EXCEPT
        !.fields = <<Exported(<<"A">>, "R"), Exported(<<"B">>, "five")>>]) @@
    ("Q" :> [Ty("struct", "Q") EXCEPT
        !.fields = <<Exported(<<"A">>, "R"), Exported(<<"B">>, "other.five")>>]) @@
    ("other.Inner" :> [Ty("struct", "Inner") EXCEPT
        !.fields = <<Exported(<<"Y">>, "string")>>]) @@
    ("Outer" :> [Ty("struct", "Outer") EXCEPT
        !.fields = <<Exported(<<"In">>, "Inner"), Exported(<<"P">>, "*Inner"),
                     Exported(<<"L">>, "[]Inner")>>]) @@
    ("Clash" :> [Ty("struct", "Clash") EXCEPT
        !.fields = <<Exported(<<"A">>, "Inner"), Exported(<<"B">>, "other.Inner")>>]) @@
    ("Node" :> [Ty("struct", "Node") EXCEPT
        !.fields = <<Exported(<<"Val">>, "int"), Exported(<<"Next">>, "*Node")>>]) @@
    ("struct{X int}" :> [Ty("struct", "") EXCEPT !.fields = <<Exported(<<"X">>, "int")>>]) @@
    ("Emb" :> [Ty("struct", "Emb") EXCEPT
        !.fields = <<Field(<<"Inner">>, "", <<>>, TRUE, "Inner")>>])

TypeIds == DOMAIN FixedTypes \cup {"T", "E"}

\* reflect's view of the type with the given id.
TypeDesc(t) ==
    CASE t = "T" -> [Ty("struct", "T") EXCEPT !.fields = tfields]
      [] t = "E" -> [Ty(ekind, "E") EXCEPT !.hasString = TRUE]
      [] OTHER -> FixedTypes[t]

\* A JSON string in a schema: the name of a primitive or of a definition.
Str(name) == [str |-> name]

\* The schema a generated type declares (RecordInfo.Schema), as define
\* unmarshals it: the record's name and fields.
GeneratedSchema(t) ==
    CASE t = "TestRecord" ->
           [type |-> "record", name |-> "TestRecord",
            fields |-> <<[name |-> <<"A">>, type |-> [type |-> "int"]],
                         [name |-> <<"B">>, type |-> [type |-> "int"]]>>]
      [] t = "PrimitiveUnionTestRecord" ->
           [type |-> "record", name |-> "PrimitiveUnionTestRecord",
            fields |-> <<[name |-> <<"UnionField">>,
                          type |-> [union |-> <<Str("int"), Str("long"), Str("float"),
                                                Str("double"), Str("string"),
                                                Str("boolean"), Str("null")>>]]>>]
      [] OTHER ->
           [type |-> "record", name |-> "R",
            fields |-> <<[name |-> <<"F">>,
                          type |-> [type |-> "fixed", name |-> "five", size |-> 5]]>>]

\* reflect.Zero(t).Interface().(avrotypegen.AvroRecord): a generated type
\* has the method, and so has a pointer to one (its zero value is nil).
ImplementsAvroRecord(t) ==
    \/ TypeDesc(t).generated
    \/ TypeDesc(t).kind = "ptr" /\ TypeDesc(TypeDesc(t).elem).generated

\* r.AvroRecord() on the zero value: the value method called through a nil
\* pointer panics.
AvroRecordPanics(t) == TypeDesc(t).kind = "ptr"

(***************************************************************************)
(* Schema derivation: goTypeSchema.schemaForGoType and its helpers.        *)
(* A derived schema is the JSON value the code builds: Str(s) for a JSON   *)
(* string (a primitive or the name of a defined type), a record with a     *)
(* "type" field for a definition, [union |-> ...] for a list.              *)
(***************************************************************************)
Omitempty == <<"o", "m", "i", "t", "e", "m", "p", "t", "y">>

\* jsonFieldName: parts[0] is parts[1] here (sequences start at 1), and the
\* code's parts[1] is parts[2]: indexing it panics when the tag has no comma.
jsonFieldName(f) ==
    IF f.pkgPath # "" THEN [panic |-> FALSE, name |-> <<>>, omitEmpty |-> FALSE]
    ELSE LET parts == Split(f.tag, ",")
             omit == \E i \in 2..Len(parts) : parts[i] = Omitempty
         IN  IF parts[1] = <<>> THEN [panic |-> FALSE, name |-> f.name, omitEmpty |-> omit]
             ELSE IF Len(parts) < 2 THEN [panic |-> TRUE, name |-> <<>>, omitEmpty |-> omit]
             ELSE IF parts[2] = <<"-">> THEN [panic |-> FALSE, name |-> <<>>, omitEmpty |-> omit]
             ELSE [panic |-> FALSE, name |-> parts[1], omitEmpty |-> omit]

\* defaultForType
defaultForType(t) ==
    CASE TypeDesc(t).kind = "slice" -> [zero |-> "empty slice", n |-> 0]
      [] TypeDesc(t).kind = "map" -> [zero |-> "empty map", n |-> 0]
      [] TypeDesc(t).kind = "array" -> [zero |-> "NUL string", n |-> TypeDesc(t).len]
      [] OTHER -> [zero |-> "zero value", n |-> 0]

\* A result of schemaForGoType or define: out is "ok", "err" (an error is
\* returned), "panic", or "overflow" (the recursion did not end within
\* MaxDepth frames: the goroutine's stack is exhausted).
Ok(schema, defs) == [out |-> "ok", schema |-> schema, err |-> "", defs |-> defs]
Err(e, defs) == [out |-> "err", schema |-> Str(""), err |-> e, defs |-> defs]
Abort(how, defs) == [out |-> how, schema |-> Str(""), err |-> "", defs |-> defs]

\* Nesting depth of schemaForGoType calls explored.
MaxDepth == 6

DefNames(defs) == { defs[t].name : t \in DOMAIN defs }

\* goTypeSchema.define: register def under its name for type t.
define(t, def, defs) ==
    IF def.name = "" THEN Err("definition with empty name", defs)
    ELSE IF def.name \in DefNames(defs) THEN Err("duplicate struct type name", defs)
    ELSE Ok(def, defs @@ (t :> [name |-> def.name, schema |-> def]))

FixedName(n) == "go.Fixed" \o ToString(n)

RECURSIVE schemaForGoType(_, _, _)
RECURSIVE structFields(_, _, _, _, _)
RECURSIVE schemaForKind(_, _, _, _)

\* The field loop of the struct case, from field i on; acc is fields.
structFields(t, i, acc, defs, depth) ==
    IF i > Len(TypeDesc(t).fields) THEN Ok(acc, defs)
    ELSE Bind(TypeDesc(t).fields[i], LAMBDA f :
         IF f.anonymous THEN Err("anonymous fields not yet supported", defs)
         ELSE Bind(jsonFieldName(f), LAMBDA n :
              IF n.panic THEN Abort("panic", defs)
              ELSE Bind(schemaForGoType(f.type, defs, depth - 1), LAMBDA ft :
                   IF ft.out # "ok" THEN ft
                   ELSE structFields(t, i + 1,
                            Append(acc, [name |-> n.name,
                                         default |-> defaultForType(f.type),
                                         type |-> ft.schema]),
                            ft.defs, depth))))

\* The switch on t.Kind() of schemaForGoType.
schemaForKind(t, d, defs, depth) ==
    CASE d.kind = "string" -> Ok(Str("string"), defs)
      [] d.kind \in {"int", "int64", "uint32"} -> Ok(Str("long"), defs)
      [] d.kind \in {"int32", "int16", "uint16", "int8", "uint8"} -> Ok(Str("int"), defs)
      [] d.kind = "float32" -> Ok(Str("float"), defs)
      [] d.kind = "float64" -> Ok(Str("double"), defs)
      [] d.kind = "slice" ->
           Bind(schemaForGoType(d.elem, defs, depth - 1), LAMBDA items :
                IF items.out # "ok" THEN items
                ELSE Ok([type |-> "array", items |-> items.schema], items.defs))
      [] d.kind = "map" ->
           IF TypeDesc(d.key).kind # "string" THEN Err("map must have string key", defs)
           ELSE Bind(schemaForGoType(d.elem, defs, depth - 1), LAMBDA values :
                IF values.out # "ok" THEN values
                ELSE Ok([type |-> "map", values |-> values.schema], values.defs))
      [] d.kind = "struct" ->
           IF d.name = "" THEN Err("unnamed struct type", defs)
           ELSE IF d.name \in DefNames(defs) THEN Err("duplicate struct type name", defs)
           ELSE Bind(structFields(t, 1, <<>>, defs, depth), LAMBDA fs :
                IF fs.out # "ok" THEN fs
                ELSE define(t, [type |-> "record", name |-> d.name,
                                fields |-> fs.schema], fs.defs))
      [] d.kind = "array" ->
           IF d.elem # "uint8" THEN Err("the only array type supported is [...]byte", defs)
           ELSE define(t, [type |-> "fixed",
                           name |-> IF d.name = "" THEN FixedName(d.len) ELSE d.name,
                           size |-> d.len], defs)
      [] d.kind = "ptr" ->
           IF TypeDesc(d.elem).kind = "ptr"
           THEN Err("can only cope with a single level of pointer indirection", defs)
           ELSE Bind(schemaForGoType(d.elem, defs, depth - 1), LAMBDA elem :
                IF elem.out # "ok" THEN elem
                ELSE Ok([union |-> <<Str("null"), elem.schema>>], elem.defs))
      [] d.kind = "interface" -> Err("interface types not yet supported", defs)
      [] OTHER -> Err("cannot make Avro schema for Go type", defs)

\* goTypeSchema.schemaForGoType; defs is gts.defs.
schemaForGoType(t, defs, depth) ==
    IF depth = 0 THEN Abort("overflow", defs)
    ELSE IF t \in DOMAIN defs THEN Ok(Str(defs[t].name), defs)
    ELSE IF ImplementsAvroRecord(t)
    THEN IF AvroRecordPanics(t) THEN Abort("panic", defs)
         ELSE define(t, GeneratedSchema(t), defs)
    ELSE Bind(TypeDesc(t), LAMBDA d :
         Bind(enumSymbols(d.kind, d.hasString), LAMBDA syms :
         IF Len(syms) > 0
         THEN Bind([name |-> d.name, symbols |-> syms, default |-> syms[1]],
                   LAMBDA def : Ok(def, (t :> [name |-> d.name, schema |-> def]) @@ defs))
         ELSE schemaForKind(t, d, defs, depth)))

\* gts := &goTypeSchema{defs: make(map[reflect.Type]goTypeDef)}
NoDefs == [t \in {} |-> [name |-> "", schema |-> Str("")]]

\* ParseType: the textual-schema parser; it returns a new *Type holding
\* the parsed schema.
ParseType(schema) == [ok |-> TRUE, avroType |-> schema, err |-> ""]

\* schemaForGoTypeUncached (wType is nil): derive, marshal, parse.
schemaForGoTypeUncached(t) ==
    Bind(schemaForGoType(t, NoDefs, MaxDepth), LAMBDA r :
    IF r.out # "ok" THEN [out |-> r.out, avroType |-> Str(""), err |-> r.err]
    ELSE Bind(ParseType(r.schema), LAMBDA p :
         IF p.ok THEN [out |-> "ok", avroType |-> p.avroType, err |-> ""]
         ELSE [out |-> "err", avroType |-> Str(""), err |-> p.err]))

(***************************************************************************)
(* avroTypeOf and the goTypeToAvroType cache, called from concurrent       *)
(* goroutines.  A *Type is [ptr, avroType]: ptr is its identity.           *)
(***************************************************************************)
NGoroutines == 3
Goroutines == 1..NGoroutines
\* The types the goroutines ask for: two that derive and one that fails.
CacheTypes == {"Inner", "Outer", "map[int]int"}

NilType == [ptr |-> 0, avroType |-> Str("")]
NoReturn == [type |-> NilType, err |-> ""]
IsErrorSchema(avroType) == "errorSchema" \in DOMAIN avroType

CacheIdle ==
    /\ goTypeToAvroType = <<>> /\ nextType = 0 /\ apc = <<>> /\ at = <<>>
    /\ awType = <<>> /\ arType = <<>> /\ aret = <<>> /\ aderived = <<>>
    /\ aprior = <<>>

CacheInit ==
    /\ goTypeToAvroType = [t \in {} |-> NilType]
    /\ nextType = 0
    /\ apc = [g \in Goroutines |-> "idle"]
    /\ at = [g \in Goroutines |-> ""]
    /\ awType = [g \in Goroutines |-> FALSE]
    /\ arType = [g \in Goroutines |-> NoReturn]
    /\ aret = [g \in Goroutines |-> NoReturn]
    /\ aderived = [t \in CacheTypes |-> 0]
    /\ aprior = [g \in Goroutines |-> ""]

\* The derivation error that finished calls avroTypeOf(t, nil) returned, ""
\* if none did.
ReturnedError(t) ==
    LET errs == { aret[h].err : h \in { k \in Goroutines :
                      apc[k] = "done" /\ at[k] = t /\ ~awType[k] /\ aret[k].err # "" } }
    IN  IF errs = {} THEN "" ELSE CHOOSE e \in errs : TRUE

\* avroTypeOf(t, wType) is called; a non-nil wType is refused at once.
ACall(g, t, w) ==
    /\ apc[g] = "idle"
    /\ at' = [at EXCEPT ![g] = t]
    /\ awType' = [awType EXCEPT ![g] = w]
    /\ aprior' = [aprior EXCEPT ![g] = IF w THEN "" ELSE ReturnedError(t)]
    /\ IF w
       THEN /\ apc' = [apc EXCEPT ![g] = "done"]
            /\ aret' = [aret EXCEPT ![g] =
                  [type |-> NilType, err |-> "TypeOf with writer type not yet supported"]]
       ELSE /\ apc' = [apc EXCEPT ![g] = "load"]
            /\ aret' = aret
    /\ UNCHANGED <<goTypeToAvroType, nextType, arType, aderived, notCache>>

\* goTypeToAvroType.Load(t): a hit returns the cached type or cached error.
ALoad(g) ==
    /\ apc[g] = "load"
    /\ IF at[g] \in DOMAIN goTypeToAvroType
       THEN LET rType == goTypeToAvroType[at[g]] IN
            /\ aret' = [aret EXCEPT ![g] =
                  IF IsErrorSchema(rType.avroType)
                  THEN [type |-> NilType, err |-> rType.avroType.errorSchema]
                  ELSE [type |-> rType, err |-> ""]]
            /\ apc' = [apc EXCEPT ![g] = "done"]
       ELSE /\ apc' = [apc EXCEPT ![g] = "derive"]
            /\ aret' = aret
    /\ UNCHANGED <<goTypeToAvroType, nextType, at, awType, arType, aderived, aprior,
                   notCache>>

\* rType, err := schemaForGoTypeUncached(t, wType)
ADerive(g) ==
    /\ apc[g] = "derive"
    /\ \E r \in {schemaForGoTypeUncached(at[g])} :
       /\ arType' = [arType EXCEPT ![g] =
             IF r.out = "ok"
             THEN [type |-> [ptr |-> nextType + 1, avroType |-> r.avroType], err |-> ""]
             ELSE [type |-> NilType, err |-> r.err]]
       /\ apc' = [apc EXCEPT ![g] = IF r.out \in {"ok", "err"} THEN "store" ELSE "panicked"]
    /\ nextType' = nextType + 1
    /\ aderived' = [aderived EXCEPT ![at[g]] = @ + 1]
    /\ UNCHANGED <<goTypeToAvroType, at, awType, aret, aprior, notCache>>

\* sync.Map.Store(key, value), which replaces what key held.
Store(m, key, value) ==
    [map |-> [k \in DOMAIN m \cup {key} |-> IF k = key THEN value ELSE m[k]],
     actual |-> value]

\* sync.Map.LoadOrStore(key, value): store value unless key is present;
\* the result is the value now in the map.
LoadOrStore(m, key, value) ==
    IF key \in DOMAIN m THEN [map |-> m, actual |-> m[key]]
    ELSE [map |-> m @@ (key :> value), actual |-> value]

\* goTypeToAvroType.LoadOrStore(t, ...), its result dropped, and the return
\* of this call's own rType or err.
AStore(g) ==
    /\ apc[g] = "store"
    /\ LET mine == IF arType[g].err # ""
                   THEN [ptr |-> nextType + 1,
                         avroType |-> [errorSchema |-> arType[g].err]]
                   ELSE arType[g].type
       IN  goTypeToAvroType' = LoadOrStore(goTypeToAvroType, at[g], mine).map
    /\ nextType' = IF arType[g].err # "" THEN nextType + 1 ELSE nextType
    /\ aret' = [aret EXCEPT ![g] = arType[g]]
    /\ apc' = [apc EXCEPT ![g] = "done"]
    /\ UNCHANGED <<at, awType, arType, aderived, aprior, notCache>>

CacheNext ==
    \E g \in Goroutines :
        \/ \E t \in CacheTypes, w \in BOOLEAN : ACall(g, t, w)
        \/ ALoad(g)
        \/ ADerive(g)
        \/ AStore(g)

\* C6: for any interleaving of concurrent avroTypeOf(t, nil) calls for one
\* type t, every call returns the same stored Type: no two calls return
\* different Type instances.
C6_OneTypePerGoType ==
    \A g1, g2 \in Goroutines :
        (apc[g1] = "done" /\ apc[g2] = "done" /\ at[g1] = at[g2]
            /\ ~awType[g1] /\ ~awType[g2] /\ aret[g1].err = "" /\ aret[g2].err = "")
        => /\ aret[g1].type.ptr = aret[g2].type.ptr
           /\ aret[g1].type = goTypeToAvroType[at[g1]]

\* C12: once avroTypeOf(t, nil) has returned a derivation error, every call
\* avroTypeOf(t, nil) made afterwards returns that error from the cache
\* without running schemaForGoTypeUncached, and an entry of the cache, error
\* or schema, is never replaced.
C12_ErrorsCached ==
    /\ [](\A g \in Goroutines :
            aprior[g] # "" =>
               /\ apc[g] \in {"load", "done"}
               /\ arType[g] = NoReturn
               /\ at[g] \in DOMAIN goTypeToAvroType
               /\ IsErrorSchema(goTypeToAvroType[at[g]].avroType)
               /\ apc[g] = "done" =>
                     /\ aret[g].err = aprior[g]
                     /\ aret[g].err = goTypeToAvroType[at[g]].avroType.errorSchema
                     /\ aret[g].type = NilType)
    /\ [][\A t \in DOMAIN goTypeToAvroType :
            /\ t \in DOMAIN goTypeToAvroType'
            /\ goTypeToAvroType'[t] = goTypeToAvroType[t]]_vars

\* A call made after an error for map[int]int was returned got that error
\* from the cache; the type was derived once.
C12_Witness ==
    \E g1, g2 \in Goroutines :
        /\ apc[g1] = "done" /\ apc[g2] = "done"
        /\ at[g1] = "map[int]int" /\ at[g2] = "map[int]int"
        /\ ~awType[g1] /\ aprior[g1] = "" /\ aret[g1].err # ""
        /\ aprior[g2] = aret[g1].err /\ aret[g2].err = aret[g1].err
        /\ aderived["map[int]int"] = 1

EnumIdle == epc = "idle" /\ eres = <<>>

DeclIdle == tfields = <<>> /\ ekind = "int" /\ estr = <<>> /\ etail = "marker"

EnumInit ==
    /\ tfields = <<>>
    /\ ekind \in {"int", "uint8"}
    /\ estr \in [(-1)..MaxIdx -> SymOutcomes]
    /\ etail \in {"marker", "fresh"}
    /\ epc = "start" /\ eres = <<>>

\* enumSymbols(reflect.TypeOf(E(0)))
EnumCall ==
    /\ epc = "start"
    /\ eres' = enumSymbols(ekind, TRUE)
    /\ epc' = "done"
    /\ UNCHANGED <<declVars, notEnum>>

EnumNext == EnumCall

\* E's String method answers at i with an in-range symbol.
InRange(i) ==
    LET r == StringOfE(i) IN ~r.panic /\ ~Contains(r.s, "(") /\ r.s # <<>>
\* The boundary k: the smallest index whose result is out of range, empty,
\* or equal to the result at k-1.
StopsAt(i) == ~InRange(i) \/ (i > 0 /\ StringOfE(i).s = StringOfE(i - 1).s)
FirstStop == CHOOSE k \in 0..(MaxIdx + 1) : StopsAt(k) /\ \A j \in 0..(k - 1) : ~StopsAt(j)
MarkerAtMinusOne == ~StringOfE(-1).panic /\ Contains(StringOfE(-1).s, "(")

\* C9: when String(-1) carries the out-of-range marker, the derived symbols
\* are exactly the String results at 0..k-1 for the first stop k.
C9_SymbolsUpToStop ==
    (epc = "done" /\ etail = "marker" /\ MarkerAtMinusOne)
    => eres = [i \in 1..FirstStop |-> StringOfE(i - 1).s]

(***************************************************************************)
(* One derivation: TypeOf(x, nil) on an empty cache runs schemaForGoType   *)
(* for x's type with fresh gts.defs.  The struct T is declared with one or *)
(* two fields, over every tag shape.                                       *)
(***************************************************************************)
Tags ==
    { <<>>, <<"n">>, <<"n", ",">> \o Omitempty, <<",">> \o Omitempty,
      <<"-">>, <<"n", ",", "-">>, <<"-", ",">> }

FieldDecls ==
    { Field(nm[1], nm[2], tag, FALSE, ty) :
        nm \in { << <<"A">>, "" >>, << <<"B">>, "" >>, << <<"b">>, "main" >> },
        tag \in Tags, ty \in {"int", "string", "Inner"} }

TDecls == { <<f>> : f \in FieldDecls }
          \cup { <<f, g>> : f \in FieldDecls,
                            g \in { h \in FieldDecls : h.type = "int" /\ h.name # <<"A">> } }

DeriveTypes == TypeIds \ {"E"}

DeriveIdle == gpc = "idle" /\ gt = "" /\ gres = Abort("", NoDefs)

DeriveInit ==
    /\ gt \in DeriveTypes
    /\ IF gt = "T" THEN tfields \in TDecls ELSE tfields = <<>>
    /\ ekind = "int" /\ estr = <<>> /\ etail = "marker"
    /\ gpc = "start" /\ gres = Abort("", NoDefs)

\* gts.schemaForGoType(t) of schemaForGoTypeUncached
GDerive ==
    /\ gpc = "start"
    /\ gres' = schemaForGoType(gt, NoDefs, MaxDepth)
    /\ gpc' = "done"
    /\ UNCHANGED <<gt, declVars, notDerive>>

DeriveNext == GDerive

\* The name part of a json tag, and whether T's field i is included.
TagName(tag) == Split(tag, ",")[1]
Included(f) == f.pkgPath = "" /\ TagName(f.tag) # <<"-">>

\* C10: in the record derived for T, every included field is named by the
\* name part of its json tag if there is one, else by its Go name, whatever
\* the options after the name; and the derivation returns a schema.
C10_FieldNames ==
    (gpc = "done" /\ gt = "T" /\ \A i \in 1..Len(tfields) : Included(tfields[i]))
    => /\ gres.out = "ok"
       /\ Len(gres.schema.fields) = Len(tfields)
       /\ \A i \in 1..Len(tfields) :
             gres.schema.fields[i].name =
                IF TagName(tfields[i].tag) # <<>> THEN TagName(tfields[i].tag)
                ELSE tfields[i].name

\* The fields of T that a record is to hold: exported and not excluded.
Kept == SelectSeq(tfields, Included)

\* A tag whose name part is "-" followed by options is read by encoding/json
\* as the name "-"; declarations with such a tag are left out of account.
PlainDash(f) == TagName(f.tag) = <<"-">> => f.tag = <<"-">>

\* C11: when a record is derived for T, its field list has one entry per
\* exported field that is not excluded, in declaration order, and no entry
\* (in particular none with an empty name) for an unexported field or for
\* a field whose json tag names it "-".
C11_SkipsHidden ==
    (gpc = "done" /\ gt = "T" /\ gres.out = "ok"
        /\ \A i \in 1..Len(tfields) : PlainDash(tfields[i]))
    => /\ Len(gres.schema.fields) = Len(Kept)
       /\ \A i \in 1..Len(gres.schema.fields) : gres.schema.fields[i].name # <<>>
       /\ \A i \in 1..Len(Kept) :
             gres.schema.fields[i].name \in {Kept[i].name, TagName(Kept[i].tag)}

(***************************************************************************)
(* Marshal.  A Go value is [type, v]: its dynamic type and its contents:   *)
(* an integer; the bytes of a string or of a byte array; the fields of a   *)
(* struct; the elements of a slice; the key -> element function of a map;  *)
(* <<>> for a nil pointer or interface and <<e>> for one holding e.        *)
(***************************************************************************)
NoType == ""
Val(t, v) == [type |-> t, v |-> v]
\* reflect.ValueOf(nil): the zero Value, which has no type.
NilValue == Val(NoType, 0)
KindOf(x) == TypeDesc(x.type).kind

Has(r, f) == f \in DOMAIN r
Primitives == {"null", "boolean", "int", "long", "float", "double", "bytes", "string"}

\* The names the parser binds while reading a schema: every definition the
\* derivation registered, by name.
Namespace(defs) ==
    [n \in DefNames(defs) |-> defs[CHOOSE t \in DOMAIN defs : defs[t].name = n].schema]

\* A name that is not a primitive is a schema.Reference to its definition,
\* and so is a definition given in place.
Deref(sch, ns) == IF Has(sch, "str") /\ sch.str \notin Primitives THEN ns[sch.str] ELSE sch

\* The case of typeEncoder's type switch that a schema falls in.
Variant(sch) ==
    CASE Has(sch, "union") -> "union"
      [] Has(sch, "symbols") -> "enum"
      [] Has(sch, "str") -> sch.str
      [] OTHER -> sch.type

\* azTypeInfo: ftype and entries.
Info(ft, entries) == [ftype |-> ft, entries |-> entries]

\* RecordInfo.Unions of a generated type, for its field i: the Go types of
\* the union's members, nil for null.
Unions(t, i) ==
    IF t = "PrimitiveUnionTestRecord" /\ i = 1
    THEN <<"int", "int64", "float32", "float64", "string", "bool", NoType>>
    ELSE <<>>

\* The info of a field or element type: a pointer is the union of nil and
\* its element; a slice or map is described by what it holds.
RECURSIVE entryFor(_)
entryFor(ft) ==
    CASE TypeDesc(ft).kind = "ptr" ->
           Info(ft, <<Info(NoType, <<>>), Info(TypeDesc(ft).elem, <<>>)>>)
      [] TypeDesc(ft).kind \in {"slice", "map"} -> entryFor(TypeDesc(ft).elem)
      [] OTHER -> Info(ft, <<>>)

\* newAzTypeInfo: a struct has one entry per field.
newAzTypeInfo(t) ==
    IF TypeDesc(t).kind = "struct"
    THEN Info(t, [i \in 1..Len(TypeDesc(t).fields) |->
                    IF Unions(t, i) # <<>>
                    THEN Info(TypeDesc(t).fields[i].type,
                              [j \in 1..Len(Unions(t, i)) |-> Info(Unions(t, i)[j], <<>>)])
                    ELSE entryFor(TypeDesc(t).fields[i].type)])
    ELSE entryFor(t)

\* errorEncoder(err): an encoder that aborts the encoding when it is run.
errorEncoder(err) == [enc |-> "error", err |-> err]
\* typeEncoder itself panicked (an index out of range, Elem of a type that
\* has none): no encoder is returned.
NoEncoder == [enc |-> "panic"]

\* The union index of the last nil entry, -1 if there is none.
nullIndex(entries) ==
    IF \E i \in 1..Len(entries) : entries[i].ftype = NoType
    THEN (CHOOSE i \in 1..Len(entries) :
             /\ entries[i].ftype = NoType
             /\ \A j \in (i + 1)..Len(entries) : entries[j].ftype # NoType) - 1
    ELSE -1

\* typeEncoder(at, t, info); ns resolves the references in at.  The result
\* describes the encoderFunc that the code returns.
RECURSIVE typeEncoder(_, _, _, _)
typeEncoder(sch0, ns, t, info0) ==
    Bind(Deref(sch0, ns), LAMBDA sch :
    Bind(Variant(sch), LAMBDA variant :
    CASE variant = "record" ->
           IF TypeDesc(t).kind # "struct" THEN errorEncoder("expected struct")
           ELSE Bind(IF Len(info0.entries) = 0 THEN newAzTypeInfo(info0.ftype) ELSE info0,
                     LAMBDA info :
                IF Len(info.entries) # Len(sch.fields)
                THEN errorEncoder("entry count mismatch")
                ELSE IF Len(TypeDesc(t).fields) # Len(sch.fields)
                THEN errorEncoder("field count mismatch")
                ELSE [enc |-> "struct",
                      fields |-> [i \in 1..Len(sch.fields) |->
                                    typeEncoder(sch.fields[i].type, ns,
                                                TypeDesc(t).fields[i].type,
                                                info.entries[i])]])
      [] variant = "enum" -> [enc |-> "long"]
      [] variant = "fixed" -> [enc |-> "fixed", size |-> sch.size]
      [] variant = "union" ->
           IF TypeDesc(t).kind = "ptr"
           THEN IF Len(sch.union) # 2
                THEN errorEncoder("unexpected item type count in union")
                ELSE IF Len(info0.entries) < 2 THEN NoEncoder
                ELSE IF info0.entries[1].ftype = NoType
                THEN [enc |-> "ptrUnion", indexes |-> <<0, 1>>,
                      encodeElem |-> typeEncoder(sch.union[2], ns, info0.entries[2].ftype,
                                                 info0.entries[2])]
                ELSE IF info0.entries[2].ftype = NoType
                THEN [enc |-> "ptrUnion", indexes |-> <<1, 0>>,
                      encodeElem |-> typeEncoder(sch.union[1], ns, info0.entries[1].ftype,
                                                 info0.entries[1])]
                ELSE errorEncoder("unexpected types in union")
           ELSE IF TypeDesc(t).kind = "interface"
           THEN IF \E i \in 1..Len(info0.entries) :
                      info0.entries[i].ftype # NoType /\ i > Len(sch.union)
                THEN NoEncoder
                ELSE [enc |-> "union", nullIndex |-> nullIndex(info0.entries),
                      choices |-> [i \in 1..Len(info0.entries) |->
                          IF info0.entries[i].ftype = NoType
                          THEN [typ |-> NoType, enc |-> [enc |-> "nil"]]
                          ELSE [typ |-> info0.entries[i].ftype,
                                enc |-> typeEncoder(sch.union[i], ns,
                                                    info0.entries[i].ftype,
                                                    info0.entries[i])]]]
           ELSE errorEncoder("union type is not pointer or interface")
      [] variant = "map" ->
           IF TypeDesc(t).kind \notin {"array", "map", "ptr", "slice"} THEN NoEncoder
           ELSE [enc |-> "map",
                 encodeElem |-> typeEncoder(sch.values, ns, TypeDesc(t).elem, info0)]
      [] variant = "array" ->
           IF TypeDesc(t).kind \notin {"array", "map", "ptr", "slice"} THEN NoEncoder
           ELSE [enc |-> "array",
                 encodeElem |-> typeEncoder(sch.items, ns, TypeDesc(t).elem, info0)]
      [] variant = "boolean" -> [enc |-> "bool"]
      [] variant = "bytes" -> [enc |-> "bytes"]
      [] variant = "double" -> [enc |-> "double"]
      [] variant = "float" -> [enc |-> "float"]
      [] variant \in {"int", "long"} -> [enc |-> "long"]
      [] variant = "string" -> [enc |-> "string"]
      [] OTHER -> errorEncoder("unknown avro schema type")))

\* Whether a panic left typeEncoder anywhere in the recursion.
RECURSIVE BuildPanics(_)
BuildPanics(enc) ==
    CASE enc.enc = "panic" -> TRUE
      [] enc.enc = "struct" -> \E i \in 1..Len(enc.fields) : BuildPanics(enc.fields[i])
      [] enc.enc \in {"map", "array", "ptrUnion"} -> BuildPanics(enc.encodeElem)
      [] enc.enc = "union" -> \E i \in 1..Len(enc.choices) : BuildPanics(enc.choices[i].enc)
      [] OTHER -> FALSE

\* What running an encoder leaves: bytes written, an encodeError panic
\* raised by encodeState.error, or another panic (a *reflect.ValueError).
Wrote(bytes) == [out |-> "ok", bytes |-> bytes, err |-> ""]
encodeError(err) == [out |-> "encodeError", bytes |-> <<>>, err |-> err]
ValueError == [out |-> "panic", bytes |-> <<>>, err |-> "reflect.ValueError"]

RECURSIVE Run(_, _, _)
RECURSIVE structEncoder(_, _, _, _, _)
RECURSIVE arrayEncoder(_, _, _, _, _)
RECURSIVE mapEncoder(_, _, _, _, _)

\* enc(&e, v) for the encoder that typeEncoder returned.  ord is the order
\* in which MapRange visits the keys of the map in v.
Run(enc, x, ord) ==
    CASE enc.enc = "error" -> encodeError(enc.err)
      [] enc.enc = "long" ->
           IF KindOf(x) \in SignedKinds THEN Wrote(writeLong(x.v)) ELSE ValueError
      [] enc.enc = "bool" ->
           IF KindOf(x) = "bool" THEN Wrote(IF x.v = 0 THEN <<0>> ELSE <<1>>) ELSE ValueError
      [] enc.enc \in {"float", "double"} ->
           IF KindOf(x) \in {"float32", "float64"}
           THEN Wrote([i \in 1..(IF enc.enc = "float" THEN 4 ELSE 8) |-> x.v])
           ELSE ValueError
      [] enc.enc = "bytes" ->
           IF KindOf(x) = "slice" /\ TypeDesc(x.type).elem = "uint8"
           THEN Wrote(stringEncoder([i \in 1..Len(x.v) |-> x.v[i].v]))
           ELSE ValueError
      [] enc.enc = "string" ->
           IF KindOf(x) = "string" THEN Wrote(stringEncoder(x.v))
           ELSE Wrote(stringEncoder(<<60, 62>>))
      [] enc.enc = "fixed" ->
           IF Len(x.v) < enc.size THEN ValueError ELSE Wrote(SubSeq(x.v, 1, enc.size))
      [] enc.enc = "struct" -> structEncoder(enc.fields, x.v, 1, ord, <<>>)
      [] enc.enc = "array" ->
           IF Len(x.v) = 0 THEN Wrote(writeLong(0))
           ELSE arrayEncoder(enc.encodeElem, x.v, 1, ord, writeLong(Len(x.v)))
      [] enc.enc = "map" ->
           IF Cardinality(DOMAIN x.v) = 0 THEN Wrote(writeLong(0))
           ELSE mapEncoder(enc.encodeElem, x.v, 1, ord, writeLong(Cardinality(DOMAIN x.v)))
      [] enc.enc = "ptrUnion" ->
           IF x.v = <<>> THEN Wrote(writeLong(enc.indexes[1]))
           ELSE Bind(Run(enc.encodeElem, x.v[1], ord), LAMBDA r :
                IF r.out # "ok" THEN r
                ELSE Wrote(writeLong(enc.indexes[2]) \o r.bytes))
      [] enc.enc = "union" ->
           IF x.v = <<>>
           THEN IF enc.nullIndex # -1 THEN Wrote(writeLong(enc.nullIndex))
                ELSE encodeError("nil value not allowed")
           ELSE IF \E i \in 1..Len(enc.choices) : enc.choices[i].typ = x.v[1].type
           THEN Bind(CHOOSE i \in 1..Len(enc.choices) :
                        /\ enc.choices[i].typ = x.v[1].type
                        /\ \A j \in 1..(i - 1) : enc.choices[j].typ # x.v[1].type,
                     LAMBDA i :
                Bind(Run(enc.choices[i].enc, x.v[1], ord), LAMBDA r :
                IF r.out # "ok" THEN r
                ELSE Wrote(writeLong(i - 1) \o r.bytes)))
           ELSE encodeError("unknown type for union")
      [] OTHER -> ValueError

\* structEncoder.encode from field i on; acc is what e holds so far.
structEncoder(fields, vals, i, ord, acc) ==
    IF i > Len(fields) THEN Wrote(acc)
    ELSE Bind(Run(fields[i], vals[i], ord), LAMBDA r :
         IF r.out # "ok" THEN r
         ELSE structEncoder(fields, vals, i + 1, ord, acc \o r.bytes))

\* An array encoder that leaves out the closing writeLong(0).
RECURSIVE arrayEncoderNoEnd(_, _, _, _, _)
arrayEncoderNoEnd(encodeElem, vals, i, ord, acc) ==
    IF i > Len(vals) THEN Wrote(acc)
    ELSE Bind(Run(encodeElem, vals[i], ord), LAMBDA r :
         IF r.out # "ok" THEN r
         ELSE arrayEncoderNoEnd(encodeElem, vals, i + 1, ord, acc \o r.bytes))

\* The loop of arrayEncoder.encode and the closing writeLong(0).
arrayEncoder(encodeElem, vals, i, ord, acc) ==
    IF i > Len(vals) THEN Wrote(acc \o writeLong(0))
    ELSE Bind(Run(encodeElem, vals[i], ord), LAMBDA r :
         IF r.out # "ok" THEN r
         ELSE arrayEncoder(encodeElem, vals, i + 1, ord, acc \o r.bytes))

\* The MapRange loop of mapEncoder.encode (sortMapKeys is false) and the
\* closing writeLong(0).
mapEncoder(encodeElem, m, i, ord, acc) ==
    IF i > Len(ord) THEN Wrote(acc \o writeLong(0))
    ELSE Bind(Run(encodeElem, m[ord[i]], ord), LAMBDA r :
         IF r.out # "ok" THEN r
         ELSE mapEncoder(encodeElem, m, i + 1, ord, acc \o stringEncoder(ord[i]) \o r.bytes))

(***************************************************************************)
(* Unmarshal(data, &target, wType) with the writer's schema being the      *)
(* target type's own: the reading side of the binary encoding.             *)
(***************************************************************************)
NoRead(pos) == [ok |-> FALSE, val |-> NilValue, pos |-> pos]
DidRead(val, pos) == [ok |-> TRUE, val |-> val, pos |-> pos]

RECURSIVE Read(_, _, _, _, _, _)
RECURSIVE ReadFields(_, _, _, _, _, _, _, _)
RECURSIVE ReadItems(_, _, _, _, _, _, _, _)
RECURSIVE ReadEntries(_, _, _, _, _, _, _, _)

Read(sch0, ns, t, info0, b, pos) ==
    Bind(Deref(sch0, ns), LAMBDA sch :
    Bind(Variant(sch), LAMBDA variant :
    CASE variant = "record" ->
           Bind(IF Len(info0.entries) = 0 THEN newAzTypeInfo(info0.ftype) ELSE info0,
                LAMBDA info : ReadFields(sch.fields, ns, t, info, b, pos, 1, <<>>))
      [] variant \in {"int", "long", "enum"} ->
           Bind(ReadLong(b, pos), LAMBDA r :
                IF r.ok THEN DidRead(Val(t, r.val), r.pos) ELSE NoRead(pos))
      [] variant = "string" ->
           Bind(ReadValue("string", b, pos), LAMBDA r :
                IF r.ok THEN DidRead(Val(t, r.val), r.pos) ELSE NoRead(pos))
      [] variant = "fixed" ->
           IF pos + sch.size > Len(b) THEN NoRead(pos)
           ELSE DidRead(Val(t, SubSeq(b, pos + 1, pos + sch.size)), pos + sch.size)
      [] variant = "array" ->
           Bind(ReadItems(sch.items, ns, TypeDesc(t).elem, info0, b, pos, 0, <<>>), LAMBDA r :
                IF r.ok THEN DidRead(Val(t, r.val), r.pos) ELSE NoRead(pos))
      [] variant = "map" ->
           Bind(ReadEntries(sch.values, ns, TypeDesc(t).elem, info0, b, pos, 0, <<>>), LAMBDA r :
                IF r.ok THEN DidRead(Val(t, r.val), r.pos) ELSE NoRead(pos))
      [] variant = "union" ->
           Bind(ReadLong(b, pos), LAMBDA r :
                IF ~r.ok \/ r.val < 0 \/ r.val >= Len(sch.union)
                      \/ r.val >= Len(info0.entries)
                THEN NoRead(pos)
                ELSE IF info0.entries[r.val + 1].ftype = NoType
                THEN DidRead(Val(t, <<>>), r.pos)
                ELSE Bind(Read(sch.union[r.val + 1], ns, info0.entries[r.val + 1].ftype,
                               info0.entries[r.val + 1], b, r.pos), LAMBDA e :
                     IF e.ok THEN DidRead(Val(t, <<e.val>>), e.pos) ELSE NoRead(pos)))
      [] variant = "boolean" ->
           IF pos + 1 > Len(b) THEN NoRead(pos) ELSE DidRead(Val(t, b[pos + 1]), pos + 1)
      [] OTHER -> NoRead(pos)))

\* The fields of a record in the writer's order, which is the target's.
ReadFields(fields, ns, t, info, b, pos, i, acc) ==
    IF i > Len(fields) THEN DidRead(Val(t, acc), pos)
    ELSE IF i > Len(info.entries) \/ i > Len(TypeDesc(t).fields) THEN NoRead(pos)
    ELSE Bind(Read(fields[i].type, ns, TypeDesc(t).fields[i].type, info.entries[i], b, pos),
              LAMBDA r :
         IF ~r.ok THEN NoRead(pos)
         ELSE ReadFields(fields, ns, t, info, b, r.pos, i + 1, Append(acc, r.val)))

\* The blocks of an array: a count, that many items, until a count of 0.
ReadItems(items, ns, et, info, b, pos, n, acc) ==
    IF n = 0
    THEN Bind(ReadLong(b, pos), LAMBDA c :
         IF ~c.ok \/ c.val < 0 THEN NoRead(pos)
         ELSE IF c.val = 0 THEN DidRead(acc, c.pos)
         ELSE ReadItems(items, ns, et, info, b, c.pos, c.val, acc))
    ELSE Bind(Read(items, ns, et, info, b, pos), LAMBDA e :
         IF ~e.ok THEN NoRead(pos)
         ELSE ReadItems(items, ns, et, info, b, e.pos, n - 1, Append(acc, e.val)))

\* The blocks of a map: each entry is a string key and a value.
ReadEntries(values, ns, et, info, b, pos, n, acc) ==
    IF n = 0
    THEN Bind(ReadLong(b, pos), LAMBDA c :
         IF ~c.ok \/ c.val < 0 THEN NoRead(pos)
         ELSE IF c.val = 0 THEN DidRead(acc, c.pos)
         ELSE ReadEntries(values, ns, et, info, b, c.pos, c.val, acc))
    ELSE Bind(ReadValue("string", b, pos), LAMBDA k :
         IF ~k.ok THEN NoRead(pos)
         ELSE Bind(Read(values, ns, et, info, b, k.pos), LAMBDA e :
              IF ~e.ok THEN NoRead(pos)
              ELSE ReadEntries(values, ns, et, info, b, e.pos, n - 1,
                               (k.val :> e.val) @@ acc)))

(***************************************************************************)
(* One call Marshal(x, nil) on an empty type cache, followed, when it      *)
(* returned bytes, by Unmarshal of those bytes into a target of x's type.  *)
(***************************************************************************)
IntVals == {-3, 0, 64}
UintVals == {0, 7}
ByteStrs == {<<>>, <<97, 98>>}
Keys == {<<97>>, <<98>>}
\* The longest slice among the inputs.
MaxElems == 2

SeqsUpTo(S, n) == UNION { [1..k -> S] : k \in 0..n }

\* The values of a type that the calls are made with.  Of bool and the float
\* kinds only the zero value is taken.
RECURSIVE ValuesOf(_)
ValuesOf(t) ==
    LET d == TypeDesc(t) IN
    CASE d.kind \in SignedKinds -> { Val(t, n) : n \in IntVals }
      [] d.kind \in UnsignedKinds -> { Val(t, n) : n \in UintVals }
      [] d.kind = "string" -> { Val(t, s) : s \in ByteStrs }
      [] d.kind = "ptr" -> { Val(t, <<>>) } \cup { Val(t, <<e>>) : e \in ValuesOf(d.elem) }
      [] d.kind = "slice" -> { Val(t, s) : s \in SeqsUpTo(ValuesOf(d.elem), MaxElems) }
      [] d.kind = "map" ->
           IF d.key # "string" THEN { Val(t, <<>>) }
           ELSE { Val(t, m) : m \in UNION { [S -> ValuesOf(d.elem)] : S \in SUBSET Keys } }
      [] d.kind = "array" ->
           { Val(t, [i \in 1..d.len |-> 0]), Val(t, [i \in 1..d.len |-> 96 + i]) }
      [] d.kind = "interface" ->
           { Val(t, <<>>), Val(t, <<Val("int", 5)>>), Val(t, <<Val("string", <<97, 98>>)>>),
             Val(t, <<Val("uint32", 7)>>) }
      [] d.kind = "struct" ->
           { Val(t, fs) : fs \in
               { s \in [1..Len(d.fields) ->
                          UNION { ValuesOf(d.fields[i].type) : i \in 1..Len(d.fields) }] :
                   \A i \in 1..Len(d.fields) : s[i] \in ValuesOf(d.fields[i].type) } }
      [] OTHER -> { Val(t, 0) }

MarshalTypes ==
    {"int", "string", "uint32", "uint64", "bool", "[]int", "[]Inner", "map[string]int",
     "map[int]int", "*Inner", "*TestRecord", "[5]byte", "TestRecord", "R",
     "PrimitiveUnionTestRecord", "Inner", "Outer", "Clash", "U", "Emb", "struct{X int}", "T"}

\* The declarations of T that are marshalled: one exported field.
MarshalTDecls ==
    { <<Field(<<"A">>, "", tag, FALSE, ty)>> : tag \in Tags, ty \in {"int", "string"} }

\* The orders in which MapRange may visit the keys of a map.
KeyOrders(x) ==
    IF x # NilValue /\ KindOf(x) = "map"
    THEN { s \in [1..Cardinality(DOMAIN x.v) -> DOMAIN x.v] :
             \A i, j \in DOMAIN s : i # j => s[i] # s[j] }
    ELSE { <<>> }

NoMType == [avroType |-> Str(""), ns |-> <<>>]
NoMReturn == [bytes |-> <<>>, err |-> ""]

MarshalIdle ==
    /\ mx = NilValue /\ mpc = "idle" /\ mtype = NoMType /\ menc = [enc |-> "nil"]
    /\ mret = NoMReturn /\ mback = NilValue

MarshalInit ==
    /\ ekind = "int" /\ estr = <<>> /\ etail = "marker"
    /\ \E t \in MarshalTypes \cup {NoType} :
          /\ tfields \in (IF t = "T" THEN MarshalTDecls ELSE {<<>>})
          /\ mx \in (IF t = NoType THEN {NilValue} ELSE ValuesOf(t))
    /\ mpc = "start" /\ mtype = NoMType /\ menc = [enc |-> "nil"]
    /\ mret = NoMReturn /\ mback = NilValue

\* xv := reflect.ValueOf(x); at, err := avroTypeOf(xv.Type(), wType).
\* Type panics on the zero Value; a panic of the derivation passes through
\* avroTypeOf and Marshal, which has no deferred recover yet.
MTypeOf ==
    /\ mpc = "start"
    /\ IF mx = NilValue
       THEN mpc' = "panicked" /\ UNCHANGED <<mtype, mret>>
       ELSE \E r \in { schemaForGoType(mx.type, NoDefs, MaxDepth) } :
              IF r.out \in {"panic", "overflow"}
              THEN mpc' = "panicked" /\ UNCHANGED <<mtype, mret>>
              ELSE IF r.out = "err" \/ ~ParseType(r.schema).ok
              THEN /\ mret' = [bytes |-> <<>>, err |-> "cannot get schema info"]
                   /\ mpc' = "returned" /\ UNCHANGED mtype
              ELSE /\ mtype' = [avroType |-> ParseType(r.schema).avroType,
                                ns |-> Namespace(r.defs)]
                   /\ mpc' = "build" /\ UNCHANGED mret
    /\ UNCHANGED <<mx, menc, mback, declVars, notMarshal>>

\* info, err := newAzTypeInfo(xv.Type()); enc := typeEncoder(at.avroType,
\* xv.Type(), info): still before the defer.
MBuild ==
    /\ mpc = "build"
    /\ \E enc \in { typeEncoder(mtype.avroType, mtype.ns, mx.type, newAzTypeInfo(mx.type)) } :
          IF BuildPanics(enc)
          THEN mpc' = "panicked" /\ UNCHANGED menc
          ELSE menc' = enc /\ mpc' = "encode"
    /\ UNCHANGED <<mx, mtype, mret, mback, declVars, notMarshal>>

\* enc(&e, xv) under the deferred recover: an *encodeError becomes the
\* returned error, any other panic value is raised again by panic(r).
MEncode ==
    /\ mpc = "encode"
    /\ \E ord \in KeyOrders(mx) :
       \E r \in { Run(menc, mx, ord) } :
          CASE r.out = "ok" ->
                 mret' = [bytes |-> r.bytes, err |-> ""] /\ mpc' = "returned"
            [] r.out = "encodeError" ->
                 mret' = [bytes |-> <<>>, err |-> r.err] /\ mpc' = "returned"
            [] OTHER -> mpc' = "panicked" /\ UNCHANGED mret
    /\ UNCHANGED <<mx, mtype, menc, mback, declVars, notMarshal>>

\* Unmarshal(data, &target, at) for the data and type Marshal returned.
MUnmarshal ==
    /\ mpc = "returned" /\ mret.err = ""
    /\ mback' = Read(mtype.avroType, mtype.ns, mx.type, newAzTypeInfo(mx.type),
                     mret.bytes, 0).val
    /\ mpc' = "decoded"
    /\ UNCHANGED <<mx, mtype, menc, mret, declVars, notMarshal>>

MarshalNext == MTypeOf \/ MBuild \/ MEncode \/ MUnmarshal

\* The record types of the program that Marshal is called with.
RecordTypes == {"TestRecord", "R", "PrimitiveUnionTestRecord", "Inner", "Outer", "U", "T"}

\* A value of a record type that its schema can represent: every field of T
\* is included, and a union field holds a member of the union.
Representable(x) ==
    /\ x.type \in RecordTypes
    /\ x.type = "T" => \A i \in 1..Len(tfields) : Included(tfields[i])
    /\ x.type = "PrimitiveUnionTestRecord" =>
          \/ x.v[1].v = <<>>
          \/ \E j \in 1..Len(Unions(x.type, 1)) : Unions(x.type, 1)[j] = x.v[1].v[1].type

\* C4: for every value v of a native record type R, Marshal(v) returns
\* bytes, and decoding them with R's own schema into a target of type R
\* yields a value equal to v.
C4_RoundTrip ==
    (Representable(mx) /\ mpc \in {"returned", "decoded", "panicked"})
    => /\ mpc # "panicked"
       /\ mret.err = ""
       /\ mpc = "decoded" => mback = mx

\* The top-level array and map values that are marshalled, their length,
\* and the binary encoding of one element (an int, or an Inner holding one).
IsBlocks(x) == x.type \in {"[]int", "[]Inner", "map[string]int"}
Count(x) == IF KindOf(x) = "map" THEN Cardinality(DOMAIN x.v) ELSE Len(x.v)
ElemWire(e) == IF e.type = "Inner" THEN writeLong(e.v[1].v) ELSE writeLong(e.v)

RECURSIVE Concat(_)
Concat(ss) == IF ss = <<>> THEN <<>> ELSE Head(ss) \o Concat(Tail(ss))

\* The elements of an array in index order; the entries of a map, each
\* value after its key, in the order ord.
ItemsWire(x, ord) ==
    IF KindOf(x) = "map"
    THEN Concat([i \in 1..Len(ord) |-> stringEncoder(ord[i]) \o ElemWire(x.v[ord[i]])])
    ELSE Concat([i \in 1..Len(x.v) |-> ElemWire(x.v[i])])

\* C13 as stated: for every array or map value of n elements, n = 0
\* included, the encoder writes one block with the count n, the n elements
\* (each map value after its key) and then a zero-length block.
C13_BlockThenEnd ==
    (IsBlocks(mx) /\ mpc = "returned")
    => /\ mret.err = ""
       /\ \E ord \in KeyOrders(mx) :
             mret.bytes = writeLong(Count(mx)) \o ItemsWire(mx, ord) \o writeLong(0)

\* C13, amended: for n > 0 the encoder writes one block with the count n,
\* the n elements in index order (each map value after its key) and a
\* zero-length block; for n = 0 it writes the zero-length block alone.
C13_BlockThenEndNonEmpty ==
    (IsBlocks(mx) /\ mpc = "returned")
    => /\ mret.err = ""
       /\ IF Count(mx) = 0 THEN mret.bytes = writeLong(0)
          ELSE \E ord \in KeyOrders(mx) :
                  mret.bytes = writeLong(Count(mx)) \o ItemsWire(mx, ord) \o writeLong(0)

\* []int{-3, 64} was encoded as the count 2, the two elements and a 0.
C13_Witness ==
    /\ mpc = "returned" /\ mx.type = "[]int" /\ Len(mx.v) = 2
    /\ mx.v[1].v = -3 /\ mx.v[2].v = 64
    /\ mret.bytes = <<4, 5, 128, 1, 0>>

\* The names that a schema defines, one per definition met, in the order
\* of the text: a record, fixed or enum given in place defines its name, a
\* reference defines nothing.
RECURSIVE NamesDefined(_)
NamesDefined(sch) ==
    CASE Has(sch, "union") -> Concat([i \in 1..Len(sch.union) |-> NamesDefined(sch.union[i])])
      [] Has(sch, "str") -> <<>>
      [] Has(sch, "symbols") -> <<sch.name>>
      [] sch.type = "record" ->
           <<sch.name>> \o Concat([i \in 1..Len(sch.fields) |-> NamesDefined(sch.fields[i].type)])
      [] sch.type = "fixed" -> <<sch.name>>
      [] sch.type = "array" -> NamesDefined(sch.items)
      [] sch.type = "map" -> NamesDefined(sch.values)
      [] OTHER -> <<>>

\* C14: in one derivation no two distinct Go types are registered under one
\* name, and a derivation that returns a schema defines every name once: a
\* second type of a used name makes it fail with the duplicate-name error,
\* a second occurrence of a type is a reference to its name.
C14_UniqueNames ==
    gpc = "done"
    => /\ \A t1, t2 \in DOMAIN gres.defs :
             gres.defs[t1].name = gres.defs[t2].name => t1 = t2
       /\ gres.out = "ok" =>
             \A i, j \in 1..Len(NamesDefined(gres.schema)) :
                 NamesDefined(gres.schema)[i] = NamesDefined(gres.schema)[j] => i = j
       /\ gt = "Clash" => gres.out = "err" /\ gres.err = "duplicate struct type name"

\* C15: the derivation ends for every type; for a record that refers back
\* to itself through a pointer (Node, with Next *Node) the field's type is
\* the union of null and a reference to the record's registered name.
C15_Terminates ==
    gpc = "done"
    => /\ gres.out # "overflow"
       /\ gt = "Node" =>
             /\ gres.out = "ok"
             /\ gres.schema.fields[2].type = [union |-> <<Str("null"), Str("Node")>>]

\* C7: whatever the input value and type, no panic leaves Marshal: the call
\* ends by returning bytes or a non-nil error.
C7_NoPanicEscapes == mpc # "panicked"

InitDecode == DeriveIdle /\ CacheIdle /\ DecodeInit /\ CompatIdle /\ CodecIdle /\ DeclIdle /\ EnumIdle /\ MarshalIdle
SpecDecode == InitDecode /\ [][DecodeNext]_vars

InitCompat == DeriveIdle /\ CacheIdle /\ CompatInit /\ DecodeIdle /\ CodecIdle /\ DeclIdle /\ EnumIdle /\ MarshalIdle
SpecCompat == InitCompat /\ [][CompatNext]_vars

InitCodec == DeriveIdle /\ CacheIdle /\ CodecInit /\ DecodeIdle /\ CompatIdle /\ DeclIdle /\ EnumIdle /\ MarshalIdle
SpecCodec == InitCodec /\ [][CodecNext]_vars

InitEnum == DeriveIdle /\ CacheIdle /\ EnumInit /\ DecodeIdle /\ CompatIdle /\ CodecIdle /\ MarshalIdle
SpecEnum == InitEnum /\ [][EnumNext]_vars

InitCache == DeriveIdle /\ CacheInit /\ DecodeIdle /\ CompatIdle /\ CodecIdle /\ DeclIdle /\ EnumIdle /\ MarshalIdle
SpecCache == InitCache /\ [][CacheNext]_vars

InitDerive == DeriveInit /\ DecodeIdle /\ CompatIdle /\ CodecIdle /\ EnumIdle /\ CacheIdle /\ MarshalIdle
SpecDerive == InitDerive /\ [][DeriveNext]_vars

InitMarshal == MarshalInit /\ DecodeIdle /\ CompatIdle /\ CodecIdle /\ EnumIdle /\ CacheIdle /\ DeriveIdle
SpecMarshal == InitMarshal /\ [][MarshalNext]_vars

====
